---- MODULE Spec2Model ----
(***************************************************************************)
(* hume_broker/broker.py: a module-level facade over one RMQClient         *)
(* (the transport client) and one in-process dictionary of local           *)
(* subscriptions.                                                          *)
(*                                                                         *)
(* The module's two globals, the dictionary's list objects, the transport  *)
(* clients the facade has constructed and the position of the single       *)
(* caller inside publish_local's for loop are the state.  Every facade     *)
(* function is one action; publish_local's loop advances one callback per  *)
(* step.  `last` records the operation in progress or just finished: its   *)
(* arguments, how it ended, what it returned, the transport calls it       *)
(* issued and the callbacks it invoked.                                    *)
(***************************************************************************)
EXTENDS Integers, Sequences, FiniteSets, TLC

\* ------------------------------------------------------------------ inputs
Topics == {"orders", "alerts"}
\* Callbacks the caller registers locally: A and B return, X raises.
Callbacks == {"A", "B", "X"}
\* Callbacks that re-enter the registry: invoked for a message on a topic, R
\* calls subscribe_local(topic, R) once and RR calls it twice; A does not.
ReentrantCallbacks == {"A", "R", "RR"}
\* Threads of the process that call subscribe_local beside the main caller,
\* and the callbacks they pass.
Threads == {"t1", "t2"}
ThreadCallbacks == {"A", "B"}
\* Callbacks handed to the transport (global topics, command queues).
GlobalCallbacks == {"G"}
Messages == {"ping", "pong"}
\* Queue names a caller addresses, and those it registers a server on.
Queues == {"echo", "nobody"}
ServedQueues == {"echo"}
\* RPC server handlers: echoHandler returns its request, pongHandler b"pong".
Handlers == {"echoHandler", "pongHandler"}

\* ------------------------------------------------------------------ bounds
\* subscribe_local calls accepted between two starts
MaxSubs == 3
\* start calls accepted (transport clients constructed)
MaxStarts == 2

VARIABLES
    registry,   \* _internal_subscriptions: bound or not, and the dict
    heap,       \* the list objects the dict's values refer to
    client,     \* _rmq_client: 0 when the name is unbound, else an index
    clients,    \* every RMQClient the facade has constructed, in order
    history,    \* per topic, the callbacks passed to subscribe_local since start
    pc,         \* "idle", or "fanout" inside publish_local's for loop
    iter,       \* the for loop's iterator: list, position, topic, message
    last,       \* the operation in progress or just finished
    threads     \* per thread: its line in subscribe_local, arguments and local

vars == <<registry, heap, client, clients, history, pc, iter, last, threads>>

\* ------------------------------------------------------- python values
\* A value stored in the dict, or returned by dict.get / list.append.
Missing == [kind |-> "missing", ref |-> 0]
PyNone == [kind |-> "None", ref |-> 0]
ListRef(i) == [kind |-> "list", ref |-> i]

\* One list object per topic, and one more that only an iterator still holds.
ListIds == 1 .. (Cardinality(Topics) + 1)

EmptyDict == [t \in Topics |-> Missing]
EmptyHeap == [i \in ListIds |-> <<>>]
EmptyHistory == [t \in Topics |-> <<>>]
NoIter == [ref |-> 0, idx |-> 0, topic |-> "-", msg |-> "-"]

\* dict.get(topic): None when the key is missing.
DictGet(d, t) == IF d[t].kind = "missing" THEN PyNone ELSE d[t]

\* The list objects something still refers to; the others are freed.
Referenced(d, itref) == {d[t].ref : t \in {u \in Topics : d[u].kind = "list"}} \cup {itref}
Collect(h, d, itref) == [i \in ListIds |-> IF i \in Referenced(d, itref) THEN h[i] ELSE <<>>]
FreshList(d, itref) == CHOOSE i \in ListIds : i \notin Referenced(d, itref) /\ \A j \in ListIds : j \notin Referenced(d, itref) => i <= j

\* list.append(x): extends the list object in place and returns None.
ListAppend(h, ref, x) == [heap |-> [h EXCEPT ![ref] = Append(h[ref], x)], ret |-> PyNone]

\* A thread that has not called yet.
IdleThread == [pc |-> "idle", topic |-> "-", callback |-> "-", subscriptions |-> PyNone]

TotalSubs == LET n[S \in SUBSET Topics] == IF S = {} THEN 0 ELSE LET t == CHOOSE u \in S : TRUE IN Len(history[t]) + n[S \ {t}] IN n[Topics]

\* ------------------------------------------------------- transport client
NoHandler == "-"
NewClient == [state |-> "created", rpcClient |-> FALSE, servers |-> [q \in Queues |-> NoHandler]]
\* RMQClient.start(): connects, or raises and leaves the client not started.
TStart(c, ok) == [c EXCEPT !.state = IF ok THEN "started" ELSE "failed"]
TEnableRpcClient(c) == [c EXCEPT !.rpcClient = TRUE]
\* RMQClient.stop(): releases a started client's connection and consumers.
TStop(c) == IF c.state = "started" THEN [c EXCEPT !.state = "stopped", !.servers = [q \in Queues |-> NoHandler]] ELSE c
\* RMQClient.enable_rpc_server(queue, handler): the queue's one handler.
TEnableRpcServer(c, q, h) == IF c.state = "started" THEN [c EXCEPT !.servers[q] = h] ELSE c
\* What a handler returns for a request.
HandlerReply(h, m) == IF h = "echoHandler" THEN m ELSE "pong"
\* The handlers consuming queue q on the transport.
Serving(q) == {clients[i].servers[q] : i \in {j \in 1 .. Len(clients) : clients[j].state = "started"}} \ {NoHandler}

\* ------------------------------------------------------- lifecycle
\* The broker's state as a caller sees it, read off the two globals.
Lifecycle == IF client = 0 THEN "never" ELSE IF clients[client].state = "started" THEN "running" ELSE clients[client].state

Op(op, a, b, outcome, ret, tops, invoked) == [op |-> op, a |-> a, b |-> b, pre |-> Lifecycle, outcome |-> outcome, ret |-> ret, tops |-> tops, invoked |-> invoked]

\* ------------------------------------------------------- module load
\* The module as it would load had line 8 assigned an empty dict.
ModuleGlobalsAssigned == [registry |-> [bound |-> TRUE, dict |-> EmptyDict], client |-> 0]

\* Lines 8-9 only annotate the two names: neither is bound at import.
ModuleGlobals == [registry |-> [bound |-> FALSE, dict |-> EmptyDict], client |-> 0]

Init ==
    /\ registry = ModuleGlobals.registry
    /\ client = ModuleGlobals.client
    /\ heap = EmptyHeap
    /\ clients = <<>>
    /\ history = EmptyHistory
    /\ pc = "idle"
    /\ iter = NoIter
    /\ threads = [th \in Threads |-> IdleThread]
    /\ last = [op |-> "import", a |-> "-", b |-> "-", pre |-> "never", outcome |-> "ok", ret |-> "-", tops |-> <<>>, invoked |-> <<>>]

\* ------------------------------------------------------- start / stop
\* start as it would be had it kept a dict that is already bound.
start_keeping_registry(ok) ==
    /\ pc = "idle"
    /\ Len(clients) < MaxStarts
    /\ LET n == Len(clients) + 1
           made == TStart(NewClient, ok)
       IN /\ registry' = IF registry.bound THEN registry ELSE [bound |-> TRUE, dict |-> EmptyDict]
          /\ heap' = heap
          /\ history' = EmptyHistory
          /\ client' = n
          /\ clients' = Append(clients, IF ok THEN TEnableRpcClient(made) ELSE made)
          /\ last' = Op("start", "-", "-", IF ok THEN "ok" ELSE "TransportError", "-",
                        <<<<n, "new", "-", "-">>, <<n, "start", "-", "-">>>>
                            \o (IF ok THEN <<<<n, "enable_rpc_client", "-", "-">>>> ELSE <<>>),
                        <<>>)
    /\ UNCHANGED <<pc, iter, threads>>

\* start as it would be without line 32.
start_no_rpc_client(ok) ==
    /\ pc = "idle"
    /\ Len(clients) < MaxStarts
    /\ LET n == Len(clients) + 1
       IN /\ registry' = [bound |-> TRUE, dict |-> EmptyDict]
          /\ heap' = EmptyHeap
          /\ history' = EmptyHistory
          /\ client' = n
          /\ clients' = Append(clients, TStart(NewClient, ok))
          /\ last' = Op("start", "-", "-", IF ok THEN "ok" ELSE "TransportError", "-",
                        <<<<n, "new", "-", "-">>, <<n, "start", "-", "-">>>>, <<>>)
    /\ UNCHANGED <<pc, iter, threads>>

start(ok) ==
    /\ pc = "idle"
    /\ Len(clients) < MaxStarts
    /\ LET n == Len(clients) + 1
           made == TStart(NewClient, ok)
       IN /\ registry' = [bound |-> TRUE, dict |-> EmptyDict]
          /\ heap' = EmptyHeap
          /\ history' = EmptyHistory
          /\ client' = n
          /\ clients' = Append(clients, IF ok THEN TEnableRpcClient(made) ELSE made)
          /\ last' = Op("start", "-", "-", IF ok THEN "ok" ELSE "TransportError", "-",
                        <<<<n, "new", "-", "-">>, <<n, "start", "-", "-">>>>
                            \o (IF ok THEN <<<<n, "enable_rpc_client", "-", "-">>>> ELSE <<>>),
                        <<>>)
    /\ UNCHANGED <<pc, iter, threads>>

stop(ok) ==
    /\ pc = "idle"
    /\ IF client = 0
       THEN /\ last' = Op("stop", "-", "-", "NameError", "-", <<>>, <<>>)
            /\ UNCHANGED clients
       ELSE /\ clients[client].state = "started" => ok
            /\ clients' = IF ok THEN [clients EXCEPT ![client] = TStop(@)] ELSE clients
            /\ last' = Op("stop", "-", "-", IF ok THEN "ok" ELSE "TransportError", "-",
                          <<<<client, "stop", "-", "-">>>>, <<>>)
    /\ UNCHANGED <<registry, heap, client, history, pc, iter, threads>>

\* ------------------------------------------------------- local registry
\* subscribe_local's body as it would be had line 74 left the list in the dict.
SubscribeLocalKeepingList(d, h, t, cb, itref) ==
    LET subscriptions == DictGet(d, t) IN
    IF subscriptions.kind # "None"
    THEN [dict |-> d, heap |-> ListAppend(h, subscriptions.ref, cb).heap]
    ELSE LET i == FreshList(d, itref)
             d2 == [d EXCEPT ![t] = ListRef(i)]
         IN [dict |-> d2, heap |-> [h EXCEPT ![i] = <<cb>>]]

\* The body of subscribe_local once the global is known to be bound: the new
\* dict and heap.  itref is the list a running for loop iterates, if any.
SubscribeLocalEffect(d, h, t, cb, itref) ==
    LET subscriptions == DictGet(d, t) IN
    IF subscriptions.kind # "None"
    THEN LET app == ListAppend(h, subscriptions.ref, cb)
             d2 == [d EXCEPT ![t] = app.ret]
         IN [dict |-> d2, heap |-> Collect(app.heap, d2, itref)]
    ELSE LET i == FreshList(d, itref)
             d2 == [d EXCEPT ![t] = ListRef(i)]
         IN [dict |-> d2, heap |-> [h EXCEPT ![i] = <<cb>>]]

\* subscribe_local as it would be had it also subscribed on the transport.
subscribe_local_forwarding(t, cb) ==
    /\ pc = "idle"
    /\ TotalSubs < MaxSubs
    /\ IF ~registry.bound
       THEN /\ last' = Op("subscribe_local", t, cb, "NameError", "-", <<>>, <<>>)
            /\ UNCHANGED <<registry, heap, history>>
       ELSE LET r == SubscribeLocalEffect(registry.dict, heap, t, cb, 0)
            IN /\ registry' = [registry EXCEPT !.dict = r.dict]
               /\ heap' = r.heap
               /\ history' = [history EXCEPT ![t] = Append(@, cb)]
               /\ last' = Op("subscribe_local", t, cb, "ok", "None", <<<<client, "subscribe", t, cb>>>>, <<>>)
    /\ UNCHANGED <<client, clients, pc, iter, threads>>

subscribe_local(t, cb) ==
    /\ pc = "idle"
    /\ TotalSubs < MaxSubs
    /\ IF ~registry.bound
       THEN /\ last' = Op("subscribe_local", t, cb, "NameError", "-", <<>>, <<>>)
            /\ UNCHANGED <<registry, heap, history>>
       ELSE LET r == SubscribeLocalEffect(registry.dict, heap, t, cb, 0)
            IN /\ registry' = [registry EXCEPT !.dict = r.dict]
               /\ heap' = r.heap
               /\ history' = [history EXCEPT ![t] = Append(@, cb)]
               /\ last' = Op("subscribe_local", t, cb, "ok", "None", <<>>, <<>>)
    /\ UNCHANGED <<client, clients, pc, iter, threads>>

\* The callbacks that raise when invoked.
Raises(cb) == cb = "X"
\* How many times a callback calls subscribe_local(topic, itself) when invoked.
Resubscribes(cb) == CASE cb = "R" -> 1 [] cb = "RR" -> 2 [] OTHER -> 0

\* n calls of subscribe_local(t, cb) made from inside a callback, while the
\* for loop holds list itref.
RECURSIVE Reenter(_, _, _, _, _, _)
Reenter(d, h, t, cb, itref, n) ==
    IF n = 0
    THEN [dict |-> d, heap |-> h]
    ELSE LET r == SubscribeLocalEffect(d, h, t, cb, itref)
         IN Reenter(r.dict, r.heap, t, cb, itref, n - 1)

\* publish_local as it would be had it looked up some topic, not its own.
publish_local_any_topic(t, m) ==
    /\ pc = "idle"
    /\ IF ~registry.bound
       THEN /\ last' = Op("publish_local", t, m, "NameError", "-", <<>>, <<>>)
            /\ UNCHANGED <<pc, iter>>
       ELSE \E u \in Topics :
            LET subscriptions == DictGet(registry.dict, u) IN
            IF subscriptions.kind = "None"
            THEN /\ last' = Op("publish_local", t, m, "NoSubscription", "-", <<>>, <<>>)
                 /\ UNCHANGED <<pc, iter>>
            ELSE /\ pc' = "fanout"
                 /\ iter' = [ref |-> subscriptions.ref, idx |-> 0, topic |-> t, msg |-> m]
                 /\ last' = Op("publish_local", t, m, "pending", "-", <<>>, <<>>)
    /\ UNCHANGED <<registry, heap, client, clients, history, threads>>

\* publish_local as it would be had it looped over `subscriptions or []`.
publish_local_void(t, m) ==
    /\ pc = "idle"
    /\ IF ~registry.bound
       THEN /\ last' = Op("publish_local", t, m, "NameError", "-", <<>>, <<>>)
            /\ UNCHANGED <<pc, iter>>
       ELSE LET subscriptions == DictGet(registry.dict, t) IN
            IF subscriptions.kind = "None"
            THEN /\ last' = Op("publish_local", t, m, "ok", "None", <<>>, <<>>)
                 /\ UNCHANGED <<pc, iter>>
            ELSE /\ pc' = "fanout"
                 /\ iter' = [ref |-> subscriptions.ref, idx |-> 0, topic |-> t, msg |-> m]
                 /\ last' = Op("publish_local", t, m, "pending", "-", <<>>, <<>>)
    /\ UNCHANGED <<registry, heap, client, clients, history, threads>>

\* publish_local up to the for loop: the lookup, and the raise when it is None.
publish_local(t, m) ==
    /\ pc = "idle"
    /\ IF ~registry.bound
       THEN /\ last' = Op("publish_local", t, m, "NameError", "-", <<>>, <<>>)
            /\ UNCHANGED <<pc, iter>>
       ELSE LET subscriptions == DictGet(registry.dict, t) IN
            IF subscriptions.kind = "None"
            THEN /\ last' = Op("publish_local", t, m, "NoSubscription", "-", <<>>, <<>>)
                 /\ UNCHANGED <<pc, iter>>
            ELSE /\ pc' = "fanout"
                 /\ iter' = [ref |-> subscriptions.ref, idx |-> 0, topic |-> t, msg |-> m]
                 /\ last' = Op("publish_local", t, m, "pending", "-", <<>>, <<>>)
    /\ UNCHANGED <<registry, heap, client, clients, history, threads>>

\* One turn of `for subscription in subscriptions: subscription(message)`:
\* the next element is invoked (and runs its own subscribe_local calls before
\* it returns), or the list is exhausted and the call returns.
publish_local_loop ==
    /\ pc = "fanout"
    /\ IF iter.idx < Len(heap[iter.ref])
       THEN LET subscription == heap[iter.ref][iter.idx + 1]
                called == [last EXCEPT !.invoked = Append(@, <<subscription, iter.msg>>)]
            IN IF Raises(subscription)
               THEN /\ pc' = "idle"
                    /\ iter' = NoIter
                    /\ heap' = Collect(heap, registry.dict, 0)
                    /\ last' = [called EXCEPT !.outcome = "CallbackError"]
                    /\ UNCHANGED <<registry, history>>
               ELSE LET n == Resubscribes(subscription)
                        r == Reenter(registry.dict, heap, iter.topic, subscription, iter.ref, n)
                    IN /\ iter' = [iter EXCEPT !.idx = @ + 1]
                       /\ last' = called
                       /\ registry' = [registry EXCEPT !.dict = r.dict]
                       /\ heap' = r.heap
                       /\ history' = [history EXCEPT ![iter.topic] = @ \o [j \in 1 .. n |-> subscription]]
                       /\ UNCHANGED pc
       ELSE /\ pc' = "idle"
            /\ iter' = NoIter
            /\ heap' = Collect(heap, registry.dict, 0)
            /\ last' = [last EXCEPT !.outcome = "ok", !.ret = "None"]
            /\ UNCHANGED <<registry, history>>
    /\ UNCHANGED <<client, clients, threads>>

\* ------------------------------------------------------- delegating calls
\* A facade function whose body is one call on _rmq_client: the NameError
\* while the global is unbound, else the call, whose failure propagates.
Delegate(op, tname, a, b, ok) ==
    /\ pc = "idle"
    /\ IF client = 0
       THEN last' = Op(op, a, b, "NameError", "-", <<>>, <<>>)
       ELSE /\ clients[client].state = "started" => ok
            /\ last' = Op(op, a, b, IF ok THEN "ok" ELSE "TransportError",
                          IF ok THEN "None" ELSE "-", <<<<client, tname, a, b>>>>, <<>>)
    /\ UNCHANGED <<registry, heap, client, history, pc, iter, threads>>

subscribe_global(t, cb, ok) ==
    /\ Delegate("subscribe_global", "subscribe", t, cb, ok)
    /\ UNCHANGED clients

publish_global(t, m, ok) ==
    /\ Delegate("publish_global", "publish", t, m, ok)
    /\ UNCHANGED clients

enable_rpc_server(q, h, ok) ==
    /\ Delegate("enable_rpc_server", "enable_rpc_server", q, h, ok)
    /\ clients' = IF client # 0 /\ ok THEN [clients EXCEPT ![client] = TEnableRpcServer(@, q, h)] ELSE clients

command_queue(q, cb, ok) ==
    /\ Delegate("command_queue", "command_queue", q, cb, ok)
    /\ UNCHANGED clients

\* command as it would be had it published to a topic named like the queue.
command_as_publish(q, m, ok) ==
    /\ Delegate("command", "publish", q, m, ok)
    /\ UNCHANGED clients

command(q, m, ok) ==
    /\ Delegate("command", "command", q, m, ok)
    /\ UNCHANGED clients

\* RMQClient.rpc_call(receiver, message): the reply of a handler consuming the
\* queue, or one of the transport's errors.
TRpcCall(c, q, m) ==
    IF c.state # "started" \/ ~c.rpcClient
    THEN {[outcome |-> "TransportError", ret |-> "-"]}
    ELSE IF Serving(q) = {}
    THEN {[outcome |-> e, ret |-> "-"] : e \in {"NoReceiver", "Timeout"}}
    ELSE {[outcome |-> "ok", ret |-> HandlerReply(h, m)] : h \in Serving(q)}

\* rpc_call as it would be without the `return` of line 139.
rpc_call_dropped(receiver, message) ==
    /\ pc = "idle"
    /\ IF client = 0
       THEN last' = Op("rpc_call", receiver, message, "NameError", "-", <<>>, <<>>)
       ELSE \E answer \in TRpcCall(clients[client], receiver, message) :
                last' = Op("rpc_call", receiver, message, answer.outcome,
                           IF answer.outcome = "ok" THEN "None" ELSE "-",
                           <<<<client, "rpc_call", receiver, message>>>>, <<>>)
    /\ UNCHANGED <<registry, heap, client, clients, history, pc, iter, threads>>

rpc_call(receiver, message) ==
    /\ pc = "idle"
    /\ IF client = 0
       THEN last' = Op("rpc_call", receiver, message, "NameError", "-", <<>>, <<>>)
       ELSE \E answer \in TRpcCall(clients[client], receiver, message) :
                last' = Op("rpc_call", receiver, message, answer.outcome, answer.ret,
                           <<<<client, "rpc_call", receiver, message>>>>, <<>>)
    /\ UNCHANGED <<registry, heap, client, clients, history, pc, iter, threads>>

\* ------------------------------------------------------- threads
\* subscribe_local run by a thread, one access to the shared dict or to a
\* shared list per step; nothing in the module takes a lock.
AllThreadsIdle == \A th \in Threads : threads[th].pc = "idle"
\* The list objects a thread's local `subscriptions` still refers to.
HeldBy(ths) == {ths[th].subscriptions.ref : th \in {u \in Threads : ths[u].pc \in {"line71", "line73"}}}
CollectHeld(h, d, ths) == [i \in ListIds |-> IF i \in Referenced(d, 0) \cup HeldBy(ths) THEN h[i] ELSE <<>>]
FreshListHeld(d, ths) == CHOOSE i \in ListIds : i \notin Referenced(d, 0) \cup HeldBy(ths) /\ \A j \in ListIds : j \notin Referenced(d, 0) \cup HeldBy(ths) => i <= j

\* The thread enters subscribe_local(t, cb).
thread_subscribe_local(th, t, cb) ==
    /\ pc = "idle"
    /\ threads[th].pc = "idle"
    /\ threads' = [threads EXCEPT ![th] = [pc |-> "line69", topic |-> t, callback |-> cb, subscriptions |-> PyNone]]
    /\ UNCHANGED <<registry, heap, client, clients, history, pc, iter, last>>

\* Line 69: subscriptions = _internal_subscriptions.get(topic).
thread_line69(th) ==
    /\ threads[th].pc = "line69"
    /\ threads' = IF ~registry.bound
                  THEN [threads EXCEPT ![th].pc = "NameError"]
                  ELSE [threads EXCEPT ![th].pc = "line71", ![th].subscriptions = DictGet(registry.dict, threads[th].topic)]
    /\ UNCHANGED <<registry, heap, client, clients, history, pc, iter, last>>

\* Lines 71-78 up to the next shared access: the append of line 74, whose
\* result the update of line 73 is still to store, or the update of line 78.
thread_line71(th) ==
    /\ threads[th].pc = "line71"
    /\ LET me == threads[th] IN
       IF me.subscriptions.kind # "None"
       THEN /\ heap' = ListAppend(heap, me.subscriptions.ref, me.callback).heap
            /\ threads' = [threads EXCEPT ![th].pc = "line73"]
            /\ UNCHANGED registry
       ELSE LET ths == [threads EXCEPT ![th].pc = "done", ![th].subscriptions = PyNone]
                i == FreshListHeld(registry.dict, ths)
                d2 == [registry.dict EXCEPT ![me.topic] = ListRef(i)]
            IN /\ registry' = [registry EXCEPT !.dict = d2]
               /\ heap' = CollectHeld([heap EXCEPT ![i] = <<me.callback>>], d2, ths)
               /\ threads' = ths
    /\ UNCHANGED <<client, clients, history, pc, iter, last>>

\* Line 73: _internal_subscriptions.update({topic: None}), append's result.
thread_line73(th) ==
    /\ threads[th].pc = "line73"
    /\ LET ths == [threads EXCEPT ![th].pc = "done", ![th].subscriptions = PyNone]
           d2 == [registry.dict EXCEPT ![threads[th].topic] = ListAppend(heap, threads[th].subscriptions.ref, threads[th].callback).ret]
       IN /\ registry' = [registry EXCEPT !.dict = d2]
          /\ heap' = CollectHeld(heap, d2, ths)
          /\ threads' = ths
    /\ UNCHANGED <<client, clients, history, pc, iter, last>>

\* ------------------------------------------------------- specification
\* The lifecycle and the local registry: callers that never use the transport.
NextLocal ==
    \/ \E ok \in BOOLEAN : start(ok)
    \/ \E ok \in BOOLEAN : stop(ok)
    \/ \E t \in Topics, cb \in Callbacks : subscribe_local(t, cb)
    \/ \E t \in Topics, m \in Messages : publish_local(t, m)
    \/ publish_local_loop

SpecLocal == Init /\ [][NextLocal]_vars

\* The local registry with callbacks that subscribe from inside the fan-out.
\* A publish_local is accepted while the subscriptions are within the bound;
\* a loop that has begun always goes on, as the interpreter runs it.
NextReentrant ==
    \/ \E ok \in {TRUE} : start(ok)
    \/ \E t \in Topics, cb \in ReentrantCallbacks : subscribe_local(t, cb)
    \/ \E t \in Topics, m \in Messages : TotalSubs <= MaxSubs /\ publish_local(t, m)
    \/ publish_local_loop

SpecReentrant == Init /\ [][NextReentrant]_vars /\ WF_vars(publish_local_loop)

\* The main caller starts the broker and subscribes; then each thread makes
\* one subscribe_local call, its steps interleaved with the other thread's.
NextThreads ==
    \/ \E ok \in {TRUE} : AllThreadsIdle /\ start(ok)
    \/ \E t \in Topics, cb \in ThreadCallbacks : AllThreadsIdle /\ subscribe_local(t, cb)
    \/ \E th \in Threads, t \in Topics, cb \in ThreadCallbacks : thread_subscribe_local(th, t, cb)
    \/ \E th \in Threads : thread_line69(th)
    \/ \E th \in Threads : thread_line71(th)
    \/ \E th \in Threads : thread_line73(th)

SpecThreads == Init /\ [][NextThreads]_vars

\* The whole facade; its callers register one local callback, A.
Next ==
    \/ \E ok \in BOOLEAN : start(ok)
    \/ \E ok \in BOOLEAN : stop(ok)
    \/ \E t \in Topics, cb \in {"A"} : subscribe_local(t, cb)
    \/ \E t \in Topics, m \in Messages : publish_local(t, m)
    \/ publish_local_loop
    \/ \E t \in Topics, cb \in GlobalCallbacks, ok \in BOOLEAN : subscribe_global(t, cb, ok)
    \/ \E t \in Topics, m \in Messages, ok \in BOOLEAN : publish_global(t, m, ok)
    \/ \E q \in ServedQueues, h \in Handlers, ok \in BOOLEAN : enable_rpc_server(q, h, ok)
    \/ \E q \in Queues, cb \in GlobalCallbacks, ok \in BOOLEAN : command_queue(q, cb, ok)
    \/ \E q \in Queues, m \in Messages, ok \in BOOLEAN : command(q, m, ok)
    \/ \E q \in Queues, m \in Messages : rpc_call(q, m)

Spec == Init /\ [][Next]_vars

TypeOK ==
    /\ registry.bound \in BOOLEAN
    /\ \A t \in Topics : registry.dict[t].kind \in {"missing", "None", "list"}
    /\ client \in 0 .. MaxStarts
    /\ Len(clients) <= MaxStarts
    /\ pc \in {"idle", "fanout"}
    /\ \A th \in Threads : threads[th].pc \in {"idle", "line69", "line71", "line73", "done", "NameError"}

\* ------------------------------------------------------- claims
\* What the dict holds for a topic, read as a sequence of callbacks.
Stored(t) == IF registry.dict[t].kind = "list" THEN heap[registry.dict[t].ref] ELSE <<>>
Returning(seq) == \A i \in 1 .. Len(seq) : ~Raises(seq[i])
Started == {i \in 1 .. Len(clients) : clients[i].state = "started"}

\* C1: in a running broker, publish_local(T, m) after subscribe_local(T, c1),
\* ..., subscribe_local(T, cn) (callbacks that return) invokes c1, ..., cn once
\* each, in that order, each with m, and then returns normally.
C1_FanoutInSubscriptionOrder ==
    (/\ last.op = "publish_local"
     /\ pc = "idle"
     /\ last.pre = "running"
     /\ history[last.a] # <<>>
     /\ Returning(history[last.a]))
    => /\ last.outcome = "ok"
       /\ last.invoked = [i \in 1 .. Len(history[last.a]) |-> <<history[last.a][i], last.b>>]

\* C2: between two starts the dict holds, for every topic, exactly the
\* sequence of callbacks subscribed to it so far, and never a non-sequence.
C2_RegistryAppends ==
    (registry.bound /\ pc = "idle")
    => \A t \in Topics : registry.dict[t].kind # "None" /\ Stored(t) = history[t]

\* C3: in a running broker a publish_local on a topic nobody subscribed to
\* raises "That subscription does not exist", invokes no callback and leaves
\* the dict and its lists as they were.
C3_PublishToVoidFails ==
    [][(/\ pc = "idle"
        /\ last'.op = "publish_local"
        /\ Lifecycle = "running"
        /\ history[last'.a] = <<>>)
       => /\ last'.outcome = "NoSubscription"
          /\ last'.invoked = <<>>
          /\ pc' = "idle"
          /\ registry' = registry
          /\ heap' = heap]_vars

\* C3 witness: such a publish failed while another topic had a subscriber.
C3_Witness ==
    /\ last.op = "publish_local"
    /\ last.pre = "running"
    /\ history[last.a] = <<>>
    /\ last.outcome = "NoSubscription"
    /\ \E u \in Topics : Stored(u) # <<>>

\* C4: once stop has returned, every operation but start fails, invokes no
\* local callback and forwards nothing to the transport client.
C4_FailsAfterStop ==
    (last.pre = "stopped" /\ last.op # "start" /\ pc = "idle")
    => /\ last.outcome # "ok"
       /\ last.invoked = <<>>
       /\ last.tops = <<>>

\* C5: before the first start every operation but start fails at once: no
\* transport call, no callback, nothing registered, no client constructed.
C5_FailsBeforeStart ==
    (last.pre = "never" /\ last.op \notin {"start", "import"})
    => /\ last.outcome = "NameError"
       /\ last.tops = <<>>
       /\ last.invoked = <<>>
       /\ pc = "idle"
       /\ ~registry.bound
       /\ heap = EmptyHeap
       /\ client = 0
       /\ clients = <<>>

\* C5 witness: a subscribe_local before any start.
C5_Witness ==
    /\ last.pre = "never"
    /\ last.op = "subscribe_local"
    /\ last.outcome = "NameError"

\* C6: a stop before any start, or after a stop with no start in between,
\* fails and does not call the transport client's stop.
C6_StopOncePerStart ==
    (last.op = "stop" /\ last.pre \in {"never", "stopped"})
    => /\ last.outcome # "ok"
       /\ last.tops = <<>>

\* C7: at most one constructed transport client is started and not stopped,
\* and none is once a stop has returned.
C7_AtMostOneLiveClient ==
    /\ Cardinality(Started) <= 1
    /\ (last.op = "stop" /\ last.outcome = "ok") => Started = {}

\* C8: a start whose transport client fails to start ends in an error, and
\* afterwards every operation but start still fails, forwards nothing to the
\* client that never started and registers nothing.
C8_FailedStartNotRunning ==
    /\ (last.op = "start" /\ clients[client].state = "failed") => last.outcome # "ok"
    /\ (last.pre = "failed" /\ last.op # "start" /\ pc = "idle")
       => /\ last.outcome # "ok"
          /\ last.tops = <<>>
          /\ \A t \in Topics : Stored(t) = <<>>

\* C9: in a running broker rpc_call(q, Q) to a queue served by one handler h
\* forwards q and Q unchanged in one transport rpc_call and returns exactly
\* what h returns for Q.
C9_RpcReturnsReply ==
    (last.op = "rpc_call" /\ last.pre = "running" /\ Cardinality(Serving(last.a)) = 1)
    => \A h \in Serving(last.a) :
          /\ last.outcome = "ok"
          /\ last.ret = HandlerReply(h, last.b)
          /\ last.tops = <<<<client, "rpc_call", last.a, last.b>>>>

\* C9 witness: rpc_call("echo", b"ping") answered b"ping" by the echo handler.
C9_Witness ==
    /\ last.op = "rpc_call"
    /\ last.pre = "running"
    /\ last.a = "echo"
    /\ last.b = "ping"
    /\ Serving("echo") = {"echoHandler"}
    /\ last.ret = "ping"

\* The facade functions whose body is one call on the transport client, and
\* the RMQClient method each one calls.
Delegating == {"subscribe_global", "publish_global", "enable_rpc_server", "rpc_call", "command_queue", "command"}
TransportMethod(op) == CASE op = "subscribe_global" -> "subscribe" [] op = "publish_global" -> "publish" [] OTHER -> op

\* C13: a successful start constructs a client, starts it and then enables
\* its RPC client, in that order; whenever the broker is running the current
\* client is started and RPC-client-enabled.
C13_StartEnablesRpcClient ==
    /\ (last.op = "start" /\ last.outcome = "ok")
       => last.tops = <<<<client, "new", "-", "-">>, <<client, "start", "-", "-">>, <<client, "enable_rpc_client", "-", "-">>>>
    /\ Lifecycle = "running" => clients[client].state = "started" /\ clients[client].rpcClient

\* C13 witness: an rpc_call forwarded in a running broker that registered no
\* RPC server.
C13_Witness ==
    /\ last.op = "rpc_call"
    /\ last.pre = "running"
    /\ clients[client].rpcClient
    /\ \A q \in Queues : clients[client].servers[q] = NoHandler

\* C14: subscribe_local and publish_local issue no transport call and leave
\* the clients alone; the delegating functions invoke no local callback and
\* leave the dict, its lists and the subscriptions made so far alone.
C14_DomainsIndependent ==
    /\ [](last.op \in {"subscribe_local", "publish_local"} => last.tops = <<>>)
    /\ [](last.op \in Delegating => last.invoked = <<>>)
    /\ [][last'.op \in {"subscribe_local", "publish_local"} => clients' = clients /\ client' = client]_vars
    /\ [][last'.op \in Delegating => registry' = registry /\ heap' = heap /\ history' = history /\ pc' = "idle"]_vars

\* C14 witness: a publish_global on a topic that has a local subscriber.
C14_Witness ==
    /\ last.op = "publish_global"
    /\ last.outcome = "ok"
    /\ Stored(last.a) # <<>>
    /\ last.invoked = <<>>

\* C15: once the client is bound, each delegating function issues exactly one
\* transport call, of its own kind, on the current client, with its two
\* arguments unchanged.
C15_DelegatesOneCallOfItsKind ==
    (last.op \in Delegating /\ last.pre # "never")
    => last.tops = <<<<client, TransportMethod(last.op), last.a, last.b>>>>

\* C15 witness: command("echo", b"ping") sent as a command to queue echo.
C15_Witness ==
    /\ last.op = "command"
    /\ last.outcome = "ok"
    /\ last.tops = <<<<client, "command", "echo", "ping">>>>

Range(seq) == {seq[i] : i \in 1 .. Len(seq)}
\* The position of the first callback of a sequence that raises, 0 if none.
FirstRaising(seq) == IF Returning(seq) THEN 0 ELSE CHOOSE i \in 1 .. Len(seq) : Raises(seq[i]) /\ \A j \in 1 .. (i - 1) : ~Raises(seq[j])

\* C16: start, stop and subscribe_local invoke no callback; publish_local(T, m)
\* invokes only callbacks subscribed to T, each with m, and changes neither
\* the dict nor the sequence stored for any topic.
C16_InvokedOnlyByPublishOnOwnTopic ==
    /\ [](last.op \in {"start", "stop", "subscribe_local"} => last.invoked = <<>>)
    /\ [](last.op = "publish_local"
          => \A i \in 1 .. Len(last.invoked) : last.invoked[i][1] \in Range(history[last.a]) /\ last.invoked[i][2] = last.b)
    /\ [][last'.op = "publish_local" => registry' = registry /\ \A t \in Topics : Stored(t)' = Stored(t)]_vars

\* C16 witness: a publish_local delivered while the other topic held a
\* callback that was never subscribed to the published topic.
C16_Witness ==
    /\ last.op = "publish_local"
    /\ last.outcome = "ok"
    /\ last.invoked # <<>>
    /\ \E u \in Topics \ {last.a} : Stored(u) # <<>> /\ Range(Stored(u)) \cap Range(history[last.a]) = {}

\* C17: in a running broker, when the first raising callback among those
\* subscribed to T is ci, publish_local(T, m) invokes c1, ..., ci in order
\* with m, invokes none of the later ones and ends with ci's failure.
C17_AbortsOnFirstFailure ==
    (/\ last.op = "publish_local"
     /\ pc = "idle"
     /\ last.pre = "running"
     /\ FirstRaising(history[last.a]) # 0)
    => /\ last.outcome = "CallbackError"
       /\ last.invoked = [j \in 1 .. FirstRaising(history[last.a]) |-> <<history[last.a][j], last.b>>]

\* C18: after every start the dict is bound and empty and no list is left;
\* what the dict holds, and what a running loop iterates, was subscribed
\* since the last start; stop leaves the dict and its lists as they were.
C18_StartInstallsEmptyRegistry ==
    /\ [](last.op = "start" => registry.bound /\ registry.dict = EmptyDict /\ heap = EmptyHeap)
    /\ [](\A t \in Topics : Range(Stored(t)) \subseteq Range(history[t]))
    /\ [](pc = "fanout" => Range(heap[iter.ref]) \subseteq Range(history[iter.topic]))
    /\ [][last'.op = "stop" => registry' = registry /\ heap' = heap]_vars

\* C18 witness: a start made while the broker was running.
C18_Witness ==
    /\ last.op = "start"
    /\ last.pre = "running"
    /\ Len(clients) = 2
    /\ registry.dict = EmptyDict

\* C19: a publish_local whose callbacks all return, also ones that call
\* subscribe_local on the topic being published, ends: the list its loop
\* iterates never holds more than two callbacks, the loop never runs past
\* it, and every fan-out that began comes back to the caller.
C19_FanoutTerminates ==
    /\ [](pc = "fanout" => Len(heap[iter.ref]) <= 2 /\ Len(last.invoked) <= Len(heap[iter.ref]))
    /\ (pc = "fanout" ~> pc = "idle")

\* C19 witness: a fan-out returned after a callback had subscribed itself,
\* from inside the loop, to the topic being published.
C19_Witness ==
    /\ pc = "idle"
    /\ last.op = "publish_local"
    /\ last.outcome = "ok"
    /\ Len(last.invoked) = 2
    /\ Resubscribes(last.invoked[1][1]) > 0

\* The registry as a caller can observe it: per topic, what the dict holds.
RegistryView(r) == [t \in Topics |-> IF r.dict[t].kind = "list" THEN [kind |-> "list", items |-> r.heap[r.dict[t].ref]] ELSE [kind |-> r.dict[t].kind, items |-> <<>>]]
\* The registry after the calls subscribe_local(t, seq[1]), ... made one
\* after the other on registry r.
RECURSIVE Replay(_, _, _)
Replay(r, t, seq) == IF seq = <<>> THEN r ELSE Replay(SubscribeLocalEffect(r.dict, r.heap, t, Head(seq), 0), t, Tail(seq))
\* The registry the main caller's calls since start have built.
SerialBase == LET f[S \in SUBSET Topics] == IF S = {} THEN [dict |-> EmptyDict, heap |-> EmptyHeap] ELSE LET t == CHOOSE u \in S : TRUE IN Replay(f[S \ {t}], t, history[t]) IN f[Topics]
\* The registry after thread x's call and then thread y's, run serially.
SerialOrder(x, y) == Replay(Replay(SerialBase, threads[x].topic, <<threads[x].callback>>), threads[y].topic, <<threads[y].callback>>)

\* C11: when two threads have each completed one subscribe_local call, the
\* registry is what one of the two serial orders of the two calls leaves.
C11_ConcurrentSubscribesSerialize ==
    (threads["t1"].pc = "done" /\ threads["t2"].pc = "done")
    => RegistryView([dict |-> registry.dict, heap |-> heap]) \in {RegistryView(SerialOrder("t1", "t2")), RegistryView(SerialOrder("t2", "t1"))}

====
